---- MODULE Spec2Model ----
(***************************************************************************)
(* Real-time fan-out layer of the traffic dashboard backend                *)
(* (socket/socketHandler.js, kept as src/unnamed/part_003).                *)
(*                                                                         *)
(* A room name is modelled by the list of its ':'-separated segments,      *)
(* i.e. by the value of room.split(':'): "zone:North" is <<"zone","North">>*)
(* and "general" is <<"general">>.  room.startsWith('zone:') is then       *)
(* "at least two segments, the first one being zone".                      *)
(***************************************************************************)
EXTENDS Integers, Sequences, FiniteSets, TLC

\* ---------------------------------------------------------------- bounds
NumSockets == 2
MaxEvents == 2
MaxInflight == 2
MaxQuiet == 1
NumRequests == 2

Sockets == 1..NumSockets

\* ------------------------------------------------------------ user records
\* The seeded accounts plus an administrator of the emergency department and
\* a deactivated operator.
UserDb ==
  [ admin      |-> [role |-> "admin",    department |-> "operations",
                    isActive |-> TRUE],
    operator1  |-> [role |-> "operator", department |-> "operations",
                    isActive |-> TRUE],
    analyst1   |-> [role |-> "analyst",  department |-> "analytics",
                    isActive |-> TRUE],
    emergency1 |-> [role |-> "operator", department |-> "emergency",
                    isActive |-> TRUE],
    viewer1    |-> [role |-> "viewer",   department |-> "operations",
                    isActive |-> TRUE],
    chief      |-> [role |-> "admin",    department |-> "emergency",
                    isActive |-> TRUE],
    retired1   |-> [role |-> "operator", department |-> "maintenance",
                    isActive |-> FALSE] ]

UserIds == DOMAIN UserDb
NoUser == "none"
NoDoc == [role |-> "none", department |-> "none", isActive |-> FALSE]

\* What a handshake carries: no token, a token jwt.verify throws on (forged or
\* expired), or a token that verifies and decodes to id; "ghost" is the id of
\* an account that has been deleted since the token was issued.
Credentials ==
  { [token |-> "missing", id |-> NoUser],
    [token |-> "forged", id |-> "admin"],
    [token |-> "expired", id |-> "admin"] }
  \cup { [token |-> "valid", id |-> u] : u \in UserIds \cup {"ghost"} }

\* ------------------------------------------------------------- room names
ZoneNames == {"Central", "North", "South", "East", "West"}
FixedRooms == {"operations_center", "analytics_center", "emergency_team", "general"}

General == <<"general">>
OperationsCenter == <<"operations_center">>
AnalyticsCenter == <<"analytics_center">>
EmergencyTeam == <<"emergency_team">>

ZoneRoom(zone) == <<"zone", zone>>
IntersectionRoom(id) == <<"intersection", id>>

\* The room names clients send in join_room / leave_room.
RoomInputs ==
  { General, OperationsCenter,
    ZoneRoom("North"), ZoneRoom("Mars"), <<"zone", "North", "extra">>,
    IntersectionRoom("INT-001"), IntersectionRoom(""), <<"lobby">> }

\* The readings, incidents, intersection ids and zone lists of the inputs.
\* An empty intersection id stands for a command without intersectionId.
Readings ==
  { [zone |-> "North", intersectionId |-> "INT-001"],
    [zone |-> "South", intersectionId |-> "INT-002"] }
Incidents ==
  { [severity |-> "critical", zone |-> "North"],
    [severity |-> "low", zone |-> ""] }
CommandTargets == {"", "INT-001"}
AffectedZoneLists == {<<>>, <<"North", "Mars">>}
LeaveInputs == {General, ZoneRoom("North"), <<"lobby">>}

\* The room of a join_room payload that has no room field, or whose room is
\* not a string; JoinPayloads adds it to the names above.
NoRoom == <<>>
JoinPayloads == RoomInputs \cup {NoRoom}

\* room.startsWith(prefix + ':')
StartsWith(room, prefix) == Len(room) >= 2 /\ room[1] = prefix

\* The seeded incidents: one being handled, one resolved earlier.
IncidentDb ==
  [id \in {"INC-1", "INC-2"} |->
     IF id = "INC-1"
     THEN [status |-> "in_progress", resolvedBy |-> NoUser,
           resolutionNotes |-> "none", updates |-> <<>>]
     ELSE [status |-> "resolved", resolvedBy |-> "operator1",
           resolutionNotes |-> "cleared",
           updates |-> <<[status |-> "resolved", updatedBy |-> "operator1"]>>]]
\* req.params.id of the resolve requests: the seeded ids and an unknown one.
IncidentIds == {"INC-1", "INC-2", "INC-9"}
\* req.user of the resolve requests.
Resolvers == {"admin", "operator1", "viewer1"}
\* req.body of the resolve requests: the notes and their length.
ResolveBodies ==
  { [resolutionNotes |-> "towed", length |-> 5],
    [resolutionNotes |-> "lane reopened", length |-> 13],
    [resolutionNotes |-> "long", length |-> 501] }
Requests == 1..NumRequests
NoRequest == [actor |-> NoUser, id |-> "none", resolutionNotes |-> "none"]

VARIABLES
  status,          \* socket -> "new" | "active" | "closed" | "refused"
  sockUser,        \* socket -> socket.userId (NoUser while not connected)
  sockDoc,         \* socket -> socket.user, the document read by the handshake
  userWrites,      \* writes to the users collection: Map userId -> document,
                   \* or -> Deleted
  incidents,       \* the incidents collection: Map incidentId -> document
  resolveReq,      \* request -> what a resolve request holds while it awaits
                   \* findOneAndUpdate (NoRequest when it is not in flight)
  sockRooms,       \* socket -> rooms the socket is in (socket.join / socket.leave)
  connectedUsers,  \* Map userId -> [socketId, rooms]
  userRooms,       \* Map userId -> Set of room names
  joined,          \* socket -> rooms of its accepted join_room not left since
  everJoined,      \* socket -> rooms of every accepted join_room so far
  awaitTraffic,    \* periodic callbacks awaiting TrafficData.getLatestData()
  awaitIncidents,  \* periodic callbacks awaiting Incident.getActiveIncidents()
  events,          \* join_room and leave_room events handled so far
  running,         \* the server process is up (handlers registered, timer armed)
  quiet,           \* handlers that only emit, run since the state last changed
  last             \* the handler that ran last, its arguments and what it emitted

\* The collections and requests of the HTTP routes.
Rest == <<userWrites, incidents, resolveReq>>

\* The users collection: the seeded documents with the writes applied.
Deleted == [role |-> "deleted", department |-> "deleted", isActive |-> FALSE]
users ==
  [u \in {x \in UserIds : x \notin DOMAIN userWrites \/ userWrites[x] # Deleted}
     |-> IF u \in DOMAIN userWrites THEN userWrites[u] ELSE UserDb[u]]

vars == <<status, sockUser, sockDoc, sockRooms, connectedUsers, userRooms,
          joined, everJoined, awaitTraffic, awaitIncidents, events, running,
          quiet, Rest, last>>

\* ------------------------------------------------------------ the handshake
\* Variant of authenticateSocket that does not look at isActive.
authenticateSocketAnyKnownUser(cred) ==
  IF cred.token = "missing" THEN NoUser
  ELSE IF cred.token # "valid" THEN NoUser
  ELSE IF cred.id \notin DOMAIN users THEN NoUser
  ELSE cred.id

\* authenticateSocket: the user id put on the socket, NoUser when the
\* middleware ends in next(new Error(...)).
authenticateSocket(cred) ==
  IF cred.token = "missing" THEN NoUser
  ELSE IF cred.token # "valid" THEN NoUser
  ELSE IF cred.id \notin DOMAIN users \/ ~users[cred.id].isActive THEN NoUser
  ELSE cred.id

\* ------------------------------------------------------------ the transport
\* io.to(room): the sockets currently in the room.
Members(rooms, room) == {s \in Sockets : room \in rooms[s]}

\* io.to(room).emit(ev, data)
EmitRoom(rooms, room, ev, data) ==
  [ev |-> ev, kind |-> "room", room |-> room, rcpts |-> Members(rooms, room),
   data |-> data]

\* io.emit(ev, data): every connected socket of the namespace.
EmitAll(ev, data) ==
  [ev |-> ev, kind |-> "all", room |-> <<>>,
   rcpts |-> {s \in Sockets : status[s] = "active"}, data |-> data]

\* socket.emit(ev, data)
EmitSocket(s, ev, data) ==
  [ev |-> ev, kind |-> "socket", room |-> <<>>, rcpts |-> {s}, data |-> data]

\* Number of copies of event ev that socket s got from the emissions es.
RECURSIVE Copies(_, _, _)
Copies(es, s, ev) ==
  IF es = <<>> THEN 0
  ELSE (IF es[1].ev = ev /\ s \in es[1].rcpts THEN 1 ELSE 0)
       + Copies(Tail(es), s, ev)

\* ---------------------------------------------------------- room management
\* st = [rooms |-> sockRooms, tracked |-> userRooms]; uid is socket.userId.
EmptyMap == [x \in {} |-> {}]
MapSet(m, k, v) == [x \in DOMAIN m \cup {k} |-> IF x = k THEN v ELSE m[x]]
MapDelete(m, k) == [x \in DOMAIN m \ {k} |-> m[x]]

joinRoom(st, s, uid, room) ==
  LET t0 == IF uid \in DOMAIN st.tracked THEN st.tracked
            ELSE MapSet(st.tracked, uid, {})
  IN [rooms |-> [st.rooms EXCEPT ![s] = @ \cup {room}],
      tracked |-> [t0 EXCEPT ![uid] = @ \cup {room}]]

\* Variant of leaveRoom that updates the tracking only, without socket.leave.
leaveRoomTrackingOnly(st, s, uid, room) ==
  LET t1 == IF uid \in DOMAIN st.tracked
            THEN [st.tracked EXCEPT ![uid] = @ \ {room}]
            ELSE st.tracked
      t2 == IF uid \in DOMAIN t1 /\ t1[uid] = {} THEN MapDelete(t1, uid) ELSE t1
  IN [rooms |-> st.rooms, tracked |-> t2]

\* Variant of leaveRoom that takes every connection of the user out of the room.
leaveRoomAllOfUser(st, s, uid, room) ==
  LET t1 == IF uid \in DOMAIN st.tracked
            THEN [st.tracked EXCEPT ![uid] = @ \ {room}]
            ELSE st.tracked
      t2 == IF uid \in DOMAIN t1 /\ t1[uid] = {} THEN MapDelete(t1, uid) ELSE t1
  IN [rooms |-> [x \in Sockets |->
                   IF sockUser[x] = uid THEN st.rooms[x] \ {room} ELSE st.rooms[x]],
      tracked |-> t2]

leaveRoom(st, s, uid, room) ==
  LET t1 == IF uid \in DOMAIN st.tracked
            THEN [st.tracked EXCEPT ![uid] = @ \ {room}]
            ELSE st.tracked
      t2 == IF uid \in DOMAIN t1 /\ t1[uid] = {} THEN MapDelete(t1, uid) ELSE t1
  IN [rooms |-> [st.rooms EXCEPT ![s] = @ \ {room}], tracked |-> t2]

Now == [rooms |-> sockRooms, tracked |-> userRooms]
NoPre == [rooms |-> <<>>, tracked |-> EmptyMap]

\* What `last` records of a handler run: pre is the membership state the
\* handler started from, kept for join_room and leave_room.
Ran(op, s, room, arg, ok, emits, pre) ==
  [op |-> op, sock |-> s, room |-> room, arg |-> arg, ok |-> ok,
   emits |-> emits, pre |-> pre]

Init ==
  /\ status = [s \in Sockets |-> "new"]
  /\ sockUser = [s \in Sockets |-> NoUser]
  /\ sockDoc = [s \in Sockets |-> NoDoc]
  /\ userWrites = EmptyMap
  /\ incidents = IncidentDb
  /\ resolveReq = [r \in Requests |-> NoRequest]
  /\ sockRooms = [s \in Sockets |-> {}]
  /\ connectedUsers = EmptyMap
  /\ userRooms = EmptyMap
  /\ joined = [s \in Sockets |-> {}]
  /\ everJoined = [s \in Sockets |-> {}]
  /\ awaitTraffic = 0
  /\ awaitIncidents = 0
  /\ events = 0
  /\ running = TRUE
  /\ quiet = 0
  /\ last = Ran("init", 0, <<>>, <<>>, FALSE, <<>>, NoPre)

\* ------------------------------------------------------------- connection
\* Variant of DefaultJoins whose emergency_team test looks at the department only.
DefaultJoinsDepartmentOnly(user) ==
  <<General>>
  \o (IF user.role = "admin" \/ user.role = "operator"
      THEN <<OperationsCenter>> ELSE <<>>)
  \o (IF user.role = "admin" \/ user.role = "analyst"
      THEN <<AnalyticsCenter>> ELSE <<>>)
  \o (IF user.department = "emergency" THEN <<EmergencyTeam>> ELSE <<>>)

\* The default rooms of io.on('connection'), joined in the order of the code.
DefaultJoins(user) ==
  <<General>>
  \o (IF user.role = "admin" \/ user.role = "operator"
      THEN <<OperationsCenter>> ELSE <<>>)
  \o (IF user.role = "admin" \/ user.role = "analyst"
      THEN <<AnalyticsCenter>> ELSE <<>>)
  \o (IF user.department = "emergency" \/ user.role = "admin"
      THEN <<EmergencyTeam>> ELSE <<>>)

RECURSIVE JoinAll(_, _, _, _)
JoinAll(st, s, uid, rs) ==
  IF rs = <<>> THEN st
  ELSE JoinAll(joinRoom(st, s, uid, rs[1]), s, uid, Tail(rs))

\* Variant of Connect that also takes a socket that has been disconnected.
ConnectReusesSocket(s, u) ==
  /\ running
  /\ quiet' = 0
  /\ status[s] \in {"new", "closed"}
  /\ \A t \in Sockets : t < s => status[t] # "new"
  /\ status' = [status EXCEPT ![s] = "active"]
  /\ sockUser' = [sockUser EXCEPT ![s] = u]
  /\ sockDoc' = [sockDoc EXCEPT ![s] = users[u]]
  /\ connectedUsers' = MapSet(connectedUsers, u, [socketId |-> s, rooms |-> {}])
  /\ LET st == JoinAll(Now, s, u, DefaultJoins(users[u]))
     IN /\ sockRooms' = st.rooms
        /\ userRooms' = st.tracked
  /\ last' = Ran("connect", s, <<>>, <<u>>, TRUE,
                 <<EmitSocket(s, "connected", <<u>>)>>, NoPre)
  /\ UNCHANGED <<running, Rest, joined, everJoined, awaitTraffic, awaitIncidents, events>>

\* io.on('connection') for a socket whose handshake resolved user u.  Socket
\* ids are handed out in increasing order.
Connect(s, u) ==
  /\ running
  /\ quiet' = 0
  /\ status[s] = "new"
  /\ \A t \in Sockets : t < s => status[t] # "new"
  /\ status' = [status EXCEPT ![s] = "active"]
  /\ sockUser' = [sockUser EXCEPT ![s] = u]
  /\ sockDoc' = [sockDoc EXCEPT ![s] = users[u]]
  /\ connectedUsers' = MapSet(connectedUsers, u, [socketId |-> s, rooms |-> {}])
  /\ LET st == JoinAll(Now, s, u, DefaultJoins(users[u]))
     IN /\ sockRooms' = st.rooms
        /\ userRooms' = st.tracked
  /\ last' = Ran("connect", s, <<>>, <<u>>, TRUE,
                 <<EmitSocket(s, "connected", <<u>>)>>, NoPre)
  /\ UNCHANGED <<running, Rest, joined, everJoined, awaitTraffic, awaitIncidents, events>>

\* The middleware refused the handshake: the transport closes the connection
\* and io.on('connection') never runs for it.
Refuse(s, cred) ==
  /\ running
  /\ quiet' = 0
  /\ status[s] = "new"
  /\ \A t \in Sockets : t < s => status[t] # "new"
  /\ authenticateSocket(cred) = NoUser
  /\ status' = [status EXCEPT ![s] = "refused"]
  /\ last' = Ran("refuse", s, <<>>, <<cred.token, cred.id>>, FALSE, <<>>, NoPre)
  /\ UNCHANGED <<running, Rest, sockDoc, sockUser, sockRooms, connectedUsers, userRooms, joined,
                 everJoined, awaitTraffic, awaitIncidents, events>>

\* Variant of Disconnect that leaves the registry entry in place.
DisconnectKeepsEntry(s) ==
  /\ running
  /\ quiet' = 0
  /\ status[s] = "active"
  /\ status' = [status EXCEPT ![s] = "closed"]
  /\ sockRooms' = [sockRooms EXCEPT ![s] = {}]
  /\ userRooms' = MapDelete(userRooms, sockUser[s])
  /\ joined' = [joined EXCEPT ![s] = {}]
  /\ everJoined' = [everJoined EXCEPT ![s] = {}]
  /\ sockUser' = [sockUser EXCEPT ![s] = NoUser]
  /\ sockDoc' = [sockDoc EXCEPT ![s] = NoDoc]
  /\ last' = Ran("disconnect", s, <<>>, <<>>, TRUE, <<>>, NoPre)
  /\ UNCHANGED <<running, Rest, connectedUsers, awaitTraffic, awaitIncidents, events>>

\* socket.on('disconnect'); the transport has taken the socket out of its rooms
\* and the socket object is dropped.
Disconnect(s) ==
  /\ running
  /\ quiet' = 0
  /\ status[s] = "active"
  /\ status' = [status EXCEPT ![s] = "closed"]
  /\ sockRooms' = [sockRooms EXCEPT ![s] = {}]
  /\ connectedUsers' = MapDelete(connectedUsers, sockUser[s])
  /\ userRooms' = MapDelete(userRooms, sockUser[s])
  /\ joined' = [joined EXCEPT ![s] = {}]
  /\ everJoined' = [everJoined EXCEPT ![s] = {}]
  /\ sockUser' = [sockUser EXCEPT ![s] = NoUser]
  /\ sockDoc' = [sockDoc EXCEPT ![s] = NoDoc]
  /\ last' = Ran("disconnect", s, <<>>, <<>>, TRUE, <<>>, NoPre)
  /\ UNCHANGED <<running, Rest, awaitTraffic, awaitIncidents, events>>

\* ------------------------------------------------------ join_room / leave_room
\* Variant of JoinAccepted that skips the zone-name test.
JoinAcceptedAnyZone(room) ==
  IF StartsWith(room, "zone") THEN TRUE
  ELSE IF StartsWith(room, "intersection") THEN TRUE
  ELSE Len(room) = 1 /\ room[1] \in FixedRooms

\* Whether the branches of socket.on('join_room') reach a joinRoom call.
JoinAccepted(room) ==
  IF StartsWith(room, "zone") THEN room[2] \in ZoneNames
  ELSE IF StartsWith(room, "intersection") THEN TRUE
  ELSE Len(room) = 1 /\ room[1] \in FixedRooms

\* An exception thrown by a handler reaches no catch: the process exits, every
\* connection is closed by it and the Maps and the timer are gone.
ProcessExit ==
  /\ running' = FALSE
  /\ status' = [x \in Sockets |-> IF status[x] = "active" THEN "closed"
                                   ELSE status[x]]
  /\ sockUser' = [x \in Sockets |-> NoUser]
  /\ sockDoc' = [x \in Sockets |-> NoDoc]
  /\ sockRooms' = [x \in Sockets |-> {}]
  /\ connectedUsers' = EmptyMap
  /\ userRooms' = EmptyMap
  /\ joined' = [x \in Sockets |-> {}]
  /\ everJoined' = [x \in Sockets |-> {}]
  /\ awaitTraffic' = 0
  /\ awaitIncidents' = 0

\* socket.on('join_room').  For a payload without a room string,
\* room.startsWith throws a TypeError inside the handler.
JoinRoom(s, room) ==
  /\ running
  /\ quiet' = 0
  /\ status[s] = "active"
  /\ events < MaxEvents
  /\ events' = events + 1
  /\ IF room = NoRoom
     THEN /\ ProcessExit
          /\ last' = Ran("join_room", s, room, <<>>, FALSE, <<>>, Now)
          /\ UNCHANGED Rest
     ELSE /\ IF JoinAccepted(room)
             THEN LET st == joinRoom(Now, s, sockUser[s], room)
                  IN /\ sockRooms' = st.rooms
                     /\ userRooms' = st.tracked
                     /\ joined' = [joined EXCEPT ![s] = @ \cup {room}]
                     /\ everJoined' = [everJoined EXCEPT ![s] = @ \cup {room}]
                     /\ last' = Ran("join_room", s, room, <<>>, TRUE,
                                    <<EmitSocket(s, "room_joined", room)>>, Now)
             ELSE /\ UNCHANGED <<sockRooms, userRooms, joined, everJoined>>
                  /\ last' = Ran("join_room", s, room, <<>>, FALSE, <<>>, Now)
          /\ UNCHANGED <<running, Rest, sockDoc, status, sockUser, connectedUsers,
                         awaitTraffic, awaitIncidents>>

LeaveRoom(s, room) ==
  /\ running
  /\ quiet' = 0
  /\ status[s] = "active"
  /\ events < MaxEvents
  /\ events' = events + 1
  /\ LET st == leaveRoom(Now, s, sockUser[s], room)
     IN /\ sockRooms' = st.rooms
        /\ userRooms' = st.tracked
  /\ joined' = [joined EXCEPT ![s] = @ \ {room}]
  /\ last' = Ran("leave_room", s, room, <<>>, TRUE,
                 <<EmitSocket(s, "room_left", room)>>, Now)
  /\ UNCHANGED <<running, Rest, sockDoc, status, sockUser, connectedUsers, everJoined, awaitTraffic,
                 awaitIncidents>>

\* ------------------------------------------------------- triggered broadcasts
Membership == <<status, sockUser, sockDoc, sockRooms, connectedUsers,
                userRooms, joined, everJoined>>

\* Variant of TrafficUpdateEmits that emits once, to the union of the three
\* rooms (io.to(a).to(b).to(c).emit).
TrafficUpdateEmitsOncePerSession(reading) ==
  LET data == <<reading.zone, reading.intersectionId>>
      all == Members(sockRooms, ZoneRoom(reading.zone))
               \cup Members(sockRooms, IntersectionRoom(reading.intersectionId))
               \cup Members(sockRooms, OperationsCenter)
  IN << [ev |-> "traffic_update", kind |-> "room",
         room |-> ZoneRoom(reading.zone), rcpts |-> all, data |-> data] >>

\* Variant of TrafficUpdateEmits that emits to the zone room only.
TrafficUpdateEmitsZoneOnly(reading) ==
  LET data == <<reading.zone, reading.intersectionId>>
  IN << EmitRoom(sockRooms, ZoneRoom(reading.zone), "traffic_update", data) >>

TrafficUpdateEmits(reading) ==
  LET data == <<reading.zone, reading.intersectionId>>
  IN << EmitRoom(sockRooms, ZoneRoom(reading.zone), "traffic_update", data),
        EmitRoom(sockRooms, IntersectionRoom(reading.intersectionId),
                 "traffic_update", data),
        EmitRoom(sockRooms, OperationsCenter, "traffic_update", data) >>

BroadcastTrafficUpdate(reading) ==
  /\ running
  /\ quiet < MaxQuiet
  /\ quiet' = quiet + 1
  /\ last' = Ran("broadcastTrafficUpdate", 0, <<>>,
                 <<reading.zone, reading.intersectionId>>, TRUE,
                 TrafficUpdateEmits(reading), NoPre)
  /\ UNCHANGED <<running, Rest, Membership, events, awaitTraffic, awaitIncidents>>

IncidentUpdateEmits(incident) ==
  LET data == <<incident.severity, incident.zone>>
  IN <<EmitAll("incident_update", data)>>
     \o (IF incident.severity = "high" \/ incident.severity = "critical"
         THEN <<EmitRoom(sockRooms, EmergencyTeam, "emergency_alert", data)>>
         ELSE <<>>)
     \o (IF incident.zone # ""
         THEN <<EmitRoom(sockRooms, ZoneRoom(incident.zone), "incident_update",
                         data)>>
         ELSE <<>>)

BroadcastIncidentUpdate(incident) ==
  /\ running
  /\ quiet < MaxQuiet
  /\ quiet' = quiet + 1
  /\ last' = Ran("broadcastIncidentUpdate", 0, <<>>,
                 <<incident.severity, incident.zone>>, TRUE,
                 IncidentUpdateEmits(incident), NoPre)
  /\ UNCHANGED <<running, Rest, Membership, events, awaitTraffic, awaitIncidents>>

BroadcastSystemAlert ==
  /\ running
  /\ quiet < MaxQuiet
  /\ quiet' = quiet + 1
  /\ last' = Ran("broadcastSystemAlert", 0, <<>>, <<>>, TRUE,
                 <<EmitAll("system_alert", <<>>)>>, NoPre)
  /\ UNCHANGED <<running, Rest, Membership, events, awaitTraffic, awaitIncidents>>

\* ------------------------------------------------------- requests and ping
\* socket.on('request_traffic_data'): the find resolves (found) or rejects, or
\* the payload cannot be destructured; either way the only effect is one event
\* to the requesting socket.
RequestTrafficData(s, found) ==
  /\ running
  /\ quiet < MaxQuiet
  /\ quiet' = quiet + 1
  /\ status[s] = "active"
  /\ last' = Ran("request_traffic_data", s, <<>>, <<>>, found,
                 <<EmitSocket(s, IF found THEN "traffic_data_response" ELSE "error",
                              <<>>)>>, NoPre)
  /\ UNCHANGED <<running, Rest, Membership, events, awaitTraffic, awaitIncidents>>

\* socket.on('request_incident_data')
RequestIncidentData(s, found) ==
  /\ running
  /\ quiet < MaxQuiet
  /\ quiet' = quiet + 1
  /\ status[s] = "active"
  /\ last' = Ran("request_incident_data", s, <<>>, <<>>, found,
                 <<EmitSocket(s, IF found THEN "incident_data_response" ELSE "error",
                              <<>>)>>, NoPre)
  /\ UNCHANGED <<running, Rest, Membership, events, awaitTraffic, awaitIncidents>>

\* Variant of Ping that writes the socket's registry entry again.
PingRefreshesEntry(s) ==
  /\ running
  /\ quiet < MaxQuiet
  /\ quiet' = quiet + 1
  /\ status[s] = "active"
  /\ connectedUsers' = MapSet(connectedUsers, sockUser[s],
                              [socketId |-> s, rooms |-> {}])
  /\ last' = Ran("ping", s, <<>>, <<>>, TRUE, <<EmitSocket(s, "pong", <<>>)>>,
                 NoPre)
  /\ UNCHANGED <<running, Rest, sockDoc, status, sockUser, sockRooms, userRooms, joined,
                 everJoined, events, awaitTraffic, awaitIncidents>>

\* socket.on('ping')
Ping(s) ==
  /\ running
  /\ quiet < MaxQuiet
  /\ quiet' = quiet + 1
  /\ status[s] = "active"
  /\ last' = Ran("ping", s, <<>>, <<>>, TRUE, <<EmitSocket(s, "pong", <<>>)>>,
                 NoPre)
  /\ UNCHANGED <<running, Rest, Membership, events, awaitTraffic, awaitIncidents>>

\* ------------------------------------------------------------------ commands
\* Variant of MayControl that turns away viewers only.
MayControlAllButViewer(user) == user.role # "viewer"

MayControl(user) == user.role = "admin" \/ user.role = "operator"

\* Variant of TrafficControlCommand that reads the role from the collection.
TrafficControlCommandReadsCollection(s, intersectionId) ==
  /\ running
  /\ quiet < MaxQuiet
  /\ quiet' = quiet + 1
  /\ status[s] = "active"
  /\ LET user == IF sockUser[s] \in DOMAIN users THEN users[sockUser[s]]
                 ELSE NoDoc
     IN IF ~MayControl(user)
        THEN last' = Ran("traffic_control_command", s, <<>>, <<intersectionId>>,
                         FALSE, <<EmitSocket(s, "error", <<>>)>>, NoPre)
        ELSE last' = Ran("traffic_control_command", s, <<>>, <<intersectionId>>,
                         TRUE,
                         << EmitRoom(sockRooms,
                                     IF intersectionId # ""
                                     THEN IntersectionRoom(intersectionId)
                                     ELSE OperationsCenter,
                                     "traffic_control_command",
                                     <<intersectionId>>) >>, NoPre)
  /\ UNCHANGED <<running, Rest, Membership, events, awaitTraffic, awaitIncidents>>

\* Variant of TrafficControlCommand that sends every command to operations_center.
TrafficControlCommandToOperations(s, intersectionId) ==
  /\ running
  /\ quiet < MaxQuiet
  /\ quiet' = quiet + 1
  /\ status[s] = "active"
  /\ LET user == sockDoc[s]
     IN IF ~MayControl(user)
        THEN last' = Ran("traffic_control_command", s, <<>>, <<intersectionId>>,
                         FALSE, <<EmitSocket(s, "error", <<>>)>>, NoPre)
        ELSE last' = Ran("traffic_control_command", s, <<>>, <<intersectionId>>,
                         TRUE,
                         << EmitRoom(sockRooms, OperationsCenter,
                                     "traffic_control_command",
                                     <<intersectionId>>) >>, NoPre)
  /\ UNCHANGED <<running, Rest, Membership, events, awaitTraffic, awaitIncidents>>

TrafficControlCommand(s, intersectionId) ==
  /\ running
  /\ quiet < MaxQuiet
  /\ quiet' = quiet + 1
  /\ status[s] = "active"
  /\ LET user == sockDoc[s]
     IN IF ~MayControl(user)
        THEN last' = Ran("traffic_control_command", s, <<>>, <<intersectionId>>,
                         FALSE, <<EmitSocket(s, "error", <<>>)>>, NoPre)
        ELSE last' = Ran("traffic_control_command", s, <<>>, <<intersectionId>>,
                         TRUE,
                         << EmitRoom(sockRooms,
                                     IF intersectionId # ""
                                     THEN IntersectionRoom(intersectionId)
                                     ELSE OperationsCenter,
                                     "traffic_control_command",
                                     <<intersectionId>>) >>, NoPre)
  /\ UNCHANGED <<running, Rest, Membership, events, awaitTraffic, awaitIncidents>>

\* Variant of MayAlert that also lets operators through.
MayAlertOperators(user) ==
  user.department = "emergency" \/ user.role = "admin" \/ user.role = "operator"

MayAlert(user) == user.department = "emergency" \/ user.role = "admin"

\* Variant of EmergencyAlert that leaves the zone rooms out.
EmergencyAlertTeamOnly(s, affectedZones) ==
  /\ running
  /\ quiet < MaxQuiet
  /\ quiet' = quiet + 1
  /\ status[s] = "active"
  /\ LET user == sockDoc[s]
     IN IF ~MayAlert(user)
        THEN last' = Ran("emergency_alert", s, <<>>, affectedZones, FALSE,
                         <<EmitSocket(s, "error", <<>>)>>, NoPre)
        ELSE last' = Ran("emergency_alert", s, <<>>, affectedZones, TRUE,
                         <<EmitRoom(sockRooms, EmergencyTeam, "emergency_alert",
                                    affectedZones)>>,
                         NoPre)
  /\ UNCHANGED <<running, Rest, Membership, events, awaitTraffic, awaitIncidents>>

EmergencyAlert(s, affectedZones) ==
  /\ running
  /\ quiet < MaxQuiet
  /\ quiet' = quiet + 1
  /\ status[s] = "active"
  /\ LET user == sockDoc[s]
     IN IF ~MayAlert(user)
        THEN last' = Ran("emergency_alert", s, <<>>, affectedZones, FALSE,
                         <<EmitSocket(s, "error", <<>>)>>, NoPre)
        ELSE last' = Ran("emergency_alert", s, <<>>, affectedZones, TRUE,
                         <<EmitRoom(sockRooms, EmergencyTeam, "emergency_alert",
                                    affectedZones)>>
                         \o [i \in 1..Len(affectedZones) |->
                               EmitRoom(sockRooms, ZoneRoom(affectedZones[i]),
                                        "emergency_alert", affectedZones)],
                         NoPre)
  /\ UNCHANGED <<running, Rest, Membership, events, awaitTraffic, awaitIncidents>>

\* ------------------------------------------------------- periodic broadcasting
\* setInterval fires the async callback, which suspends at its first await.
TickFire ==
  /\ running
  /\ quiet' = 0
  /\ awaitTraffic + awaitIncidents < MaxInflight
  /\ awaitTraffic' = awaitTraffic + 1
  /\ last' = Ran("tick", 0, <<>>, <<>>, TRUE, <<>>, NoPre)
  /\ UNCHANGED <<running, Rest, Membership, events, awaitIncidents>>

\* TrafficData.getLatestData() resolved: emit, then await the incidents.
TickTrafficFetched ==
  /\ running
  /\ quiet' = 0
  /\ awaitTraffic > 0
  /\ awaitTraffic' = awaitTraffic - 1
  /\ awaitIncidents' = awaitIncidents + 1
  /\ last' = Ran("tick_traffic", 0, <<>>, <<>>, TRUE,
                 <<EmitRoom(sockRooms, OperationsCenter, "traffic_broadcast",
                            <<>>)>>, NoPre)
  /\ UNCHANGED <<running, Rest, Membership, events>>

\* Variant of TickIncidentsFetched whose count is that of the connections made
\* so far, as read before any of them was closed.
TickIncidentsFetchedStaleCount ==
  /\ running
  /\ quiet' = 0
  /\ awaitIncidents > 0
  /\ awaitIncidents' = awaitIncidents - 1
  /\ last' = Ran("tick_incidents", 0, <<>>, <<>>, TRUE,
                 << EmitRoom(sockRooms, EmergencyTeam, "incident_broadcast", <<>>),
                    [EmitAll("system_health", <<>>) EXCEPT
                       !.data = <<Cardinality({s \in Sockets :
                                    status[s] \in {"active", "closed"}})>>] >>,
                 NoPre)
  /\ UNCHANGED <<running, Rest, Membership, events, awaitTraffic>>

\* Variant of TickIncidentsFetched that sends system_health to the general room.
TickIncidentsFetchedHealthToGeneral ==
  /\ running
  /\ quiet' = 0
  /\ awaitIncidents > 0
  /\ awaitIncidents' = awaitIncidents - 1
  /\ last' = Ran("tick_incidents", 0, <<>>, <<>>, TRUE,
                 << EmitRoom(sockRooms, EmergencyTeam, "incident_broadcast", <<>>),
                    EmitRoom(sockRooms, General, "system_health",
                             <<Cardinality(DOMAIN connectedUsers)>>) >>,
                 NoPre)
  /\ UNCHANGED <<running, Rest, Membership, events, awaitTraffic>>

\* Incident.getActiveIncidents() resolved: emit incidents and system health.
TickIncidentsFetched ==
  /\ running
  /\ quiet' = 0
  /\ awaitIncidents > 0
  /\ awaitIncidents' = awaitIncidents - 1
  /\ last' = Ran("tick_incidents", 0, <<>>, <<>>, TRUE,
                 << EmitRoom(sockRooms, EmergencyTeam, "incident_broadcast", <<>>),
                    [EmitAll("system_health", <<>>) EXCEPT
                       !.data = <<Cardinality(DOMAIN connectedUsers)>>] >>,
                 NoPre)
  /\ UNCHANGED <<running, Rest, Membership, events, awaitTraffic>>

\* Variant of TickFetchFailed without the try/catch: the rejection leaves the
\* async callback unhandled and the process exits.
TickFetchFailedUncaught ==
  /\ \/ /\ awaitTraffic > 0
        /\ awaitTraffic' = awaitTraffic - 1
        /\ UNCHANGED awaitIncidents
     \/ /\ awaitIncidents > 0
        /\ awaitIncidents' = awaitIncidents - 1
        /\ UNCHANGED awaitTraffic
  /\ running
  /\ quiet' = 0
  /\ running' = FALSE
  /\ last' = Ran("tick_failed", 0, <<>>, <<>>, FALSE, <<>>, NoPre)
  /\ UNCHANGED <<Rest, Membership, events>>

\* Either fetch rejected: the catch block logs and the callback ends.
TickFetchFailed ==
  /\ running
  /\ quiet' = 0
  /\ \/ /\ awaitTraffic > 0
        /\ awaitTraffic' = awaitTraffic - 1
        /\ UNCHANGED awaitIncidents
     \/ /\ awaitIncidents > 0
        /\ awaitIncidents' = awaitIncidents - 1
        /\ UNCHANGED awaitTraffic
  /\ last' = Ran("tick_failed", 0, <<>>, <<>>, FALSE, <<>>, NoPre)
  /\ UNCHANGED <<running, Rest, Membership, events>>

\* ---------------------------------------------------------- routes/users.js
\* The accounts whose tokens the requests carry, the ids they name and the
\* bodies of PUT /users/:id.
Actors == {"admin", "operator1"}
TargetIds == {"admin", "operator1"}
UpdateBodies == { [isActive |-> FALSE], [role |-> "viewer"] }

\* protect: the request's token belongs to an account that exists and is
\* active; req.user is that account.
protect(actor) == actor \in DOMAIN users /\ users[actor].isActive

\* authorize(...roles): req.user.role is one of the roles.
authorize(actor, roles) == users[actor].role \in roles

\* { $set: updateData } applied to a document.
SetFields(doc, updateData) ==
  [f \in DOMAIN doc |-> IF f \in DOMAIN updateData THEN updateData[f] ELSE doc[f]]

\* The collection after the document of id became doc.
WriteUser(id, doc) ==
  IF id \in DOMAIN users /\ users[id] = doc THEN userWrites
  ELSE MapSet(userWrites, id, doc)

\* What an HTTP handler leaves alone.
SocketState == <<Membership, events, awaitTraffic, awaitIncidents, running>>

\* PUT /api/v1/users/:id
UpdateUser(actor, id, body) ==
  /\ running
  /\ protect(actor)
  /\ quiet' = 0
  /\ IF users[actor].role # "admin" /\ actor # id
     THEN /\ UNCHANGED userWrites
          /\ last' = Ran("PUT /users/:id", 0, <<>>, <<actor, id, 403>>, FALSE,
                         <<>>, NoPre)
     ELSE LET updateData ==
                IF users[actor].role # "admin"
                THEN [f \in DOMAIN body \ {"role", "permissions", "isActive",
                                            "department"} |-> body[f]]
                ELSE body
          IN IF id \notin DOMAIN users
             THEN /\ UNCHANGED userWrites
                  /\ last' = Ran("PUT /users/:id", 0, <<>>, <<actor, id, 404>>,
                                 FALSE, <<>>, NoPre)
             ELSE /\ userWrites' = WriteUser(id, SetFields(users[id], updateData))
                  /\ last' = Ran("PUT /users/:id", 0, <<>>, <<actor, id, 200>>,
                                 TRUE, <<>>, NoPre)
  /\ UNCHANGED <<SocketState, incidents, resolveReq>>

\* PUT /api/v1/users/:id/deactivate
DeactivateUser(actor, id) ==
  /\ running
  /\ protect(actor)
  /\ quiet' = 0
  /\ IF ~authorize(actor, {"admin"})
     THEN /\ UNCHANGED userWrites
          /\ last' = Ran("PUT /users/:id/deactivate", 0, <<>>, <<actor, id, 403>>,
                         FALSE, <<>>, NoPre)
     ELSE IF actor = id
     THEN /\ UNCHANGED userWrites
          /\ last' = Ran("PUT /users/:id/deactivate", 0, <<>>, <<actor, id, 400>>,
                         FALSE, <<>>, NoPre)
     ELSE IF id \notin DOMAIN users
     THEN /\ UNCHANGED userWrites
          /\ last' = Ran("PUT /users/:id/deactivate", 0, <<>>, <<actor, id, 404>>,
                         FALSE, <<>>, NoPre)
     ELSE /\ userWrites' = WriteUser(id, [users[id] EXCEPT !.isActive = FALSE])
          /\ last' = Ran("PUT /users/:id/deactivate", 0, <<>>, <<actor, id, 200>>,
                         TRUE, <<>>, NoPre)
  /\ UNCHANGED <<SocketState, incidents, resolveReq>>

\* PUT /api/v1/users/:id/activate
ActivateUser(actor, id) ==
  /\ running
  /\ protect(actor)
  /\ quiet' = 0
  /\ IF ~authorize(actor, {"admin"})
     THEN /\ UNCHANGED userWrites
          /\ last' = Ran("PUT /users/:id/activate", 0, <<>>, <<actor, id, 403>>,
                         FALSE, <<>>, NoPre)
     ELSE IF id \notin DOMAIN users
     THEN /\ UNCHANGED userWrites
          /\ last' = Ran("PUT /users/:id/activate", 0, <<>>, <<actor, id, 404>>,
                         FALSE, <<>>, NoPre)
     ELSE /\ userWrites' = WriteUser(id, [users[id] EXCEPT !.isActive = TRUE])
          /\ last' = Ran("PUT /users/:id/activate", 0, <<>>, <<actor, id, 200>>,
                         TRUE, <<>>, NoPre)
  /\ UNCHANGED <<SocketState, incidents, resolveReq>>

\* DELETE /api/v1/users/:id
DeleteUser(actor, id) ==
  /\ running
  /\ protect(actor)
  /\ quiet' = 0
  /\ IF ~authorize(actor, {"admin"})
     THEN /\ UNCHANGED userWrites
          /\ last' = Ran("DELETE /users/:id", 0, <<>>, <<actor, id, 403>>, FALSE,
                         <<>>, NoPre)
     ELSE IF actor = id
     THEN /\ UNCHANGED userWrites
          /\ last' = Ran("DELETE /users/:id", 0, <<>>, <<actor, id, 400>>, FALSE,
                         <<>>, NoPre)
     ELSE IF id \notin DOMAIN users
     THEN /\ UNCHANGED userWrites
          /\ last' = Ran("DELETE /users/:id", 0, <<>>, <<actor, id, 404>>, FALSE,
                         <<>>, NoPre)
     ELSE /\ userWrites' = MapSet(userWrites, id, Deleted)
          /\ last' = Ran("DELETE /users/:id", 0, <<>>, <<actor, id, 200>>, TRUE,
                         <<>>, NoPre)
  /\ UNCHANGED <<SocketState, incidents, resolveReq>>

\* ------------------------------------------------------ routes/incidents.js
\* PUT /api/v1/incidents/:id/resolve up to its second await: protect,
\* authorize('operator', 'admin'), the body validation, findOne and the two
\* checks on the document it returned.
ResolveIncidentFind(r, actor, id, body) ==
  /\ running
  /\ resolveReq[r] = NoRequest
  /\ protect(actor)
  /\ quiet' = 0
  /\ IF ~authorize(actor, {"operator", "admin"})
     THEN /\ UNCHANGED resolveReq
          /\ last' = Ran("PUT /incidents/:id/resolve", 0, <<>>,
                         <<actor, id, 403>>, FALSE, <<>>, NoPre)
     ELSE IF body.length > 500
     THEN /\ UNCHANGED resolveReq
          /\ last' = Ran("PUT /incidents/:id/resolve", 0, <<>>,
                         <<actor, id, 400, "Validation failed">>, FALSE, <<>>,
                         NoPre)
     ELSE IF id \notin DOMAIN incidents
     THEN /\ UNCHANGED resolveReq
          /\ last' = Ran("PUT /incidents/:id/resolve", 0, <<>>,
                         <<actor, id, 404>>, FALSE, <<>>, NoPre)
     ELSE IF incidents[id].status = "resolved"
     THEN /\ UNCHANGED resolveReq
          /\ last' = Ran("PUT /incidents/:id/resolve", 0, <<>>,
                         <<actor, id, 400, "Incident is already resolved">>,
                         FALSE, <<>>, NoPre)
     ELSE /\ resolveReq' = [resolveReq EXCEPT ![r] =
                              [actor |-> actor, id |-> id,
                               resolutionNotes |-> body.resolutionNotes]]
          /\ last' = Ran("resolve_found", 0, <<>>, <<actor, id>>, TRUE, <<>>,
                         NoPre)
  /\ UNCHANGED <<SocketState, userWrites, incidents>>

\* The rest of the handler: findOneAndUpdate({ incidentId: id }, ...) and the
\* response.
ResolveIncidentUpdate(r) ==
  /\ running
  /\ resolveReq[r] # NoRequest
  /\ quiet' = 0
  /\ LET req == resolveReq[r]
     IN /\ incidents' =
             [incidents EXCEPT ![req.id] =
                [status |-> "resolved",
                 resolvedBy |-> req.actor,
                 resolutionNotes |-> req.resolutionNotes,
                 updates |-> Append(@.updates,
                                    [status |-> "resolved",
                                     updatedBy |-> req.actor])]]
        /\ last' = Ran("PUT /incidents/:id/resolve", 0, <<>>,
                       <<req.actor, req.id, 200>>, TRUE, <<>>, NoPre)
  /\ resolveReq' = [resolveReq EXCEPT ![r] = NoRequest]
  /\ UNCHANGED <<SocketState, userWrites>>

Next ==
  \/ \E s \in Sockets, cred \in Credentials :
       /\ authenticateSocket(cred) # NoUser
       /\ Connect(s, authenticateSocket(cred))
  \/ \E s \in Sockets, cred \in Credentials : Refuse(s, cred)
  \/ \E s \in Sockets : Disconnect(s)
  \/ \E s \in Sockets, room \in JoinPayloads : JoinRoom(s, room)
  \/ \E s \in Sockets, room \in LeaveInputs : LeaveRoom(s, room)
  \/ \E reading \in Readings : BroadcastTrafficUpdate(reading)
  \/ \E incident \in Incidents : BroadcastIncidentUpdate(incident)
  \/ BroadcastSystemAlert
  \/ \E s \in Sockets, id \in CommandTargets : TrafficControlCommand(s, id)
  \/ \E s \in Sockets, zs \in AffectedZoneLists : EmergencyAlert(s, zs)
  \/ \E s \in Sockets, found \in BOOLEAN : RequestTrafficData(s, found)
  \/ \E s \in Sockets, found \in BOOLEAN : RequestIncidentData(s, found)
  \/ \E s \in Sockets : Ping(s)
  \/ TickFire
  \/ TickTrafficFetched
  \/ TickIncidentsFetched
  \/ TickFetchFailed

Spec == Init /\ [][Next]_vars

\* The connections and commands together with the user-management routes.
NextUsers ==
  \/ \E s \in Sockets, cred \in Credentials :
       /\ authenticateSocket(cred) # NoUser
       /\ Connect(s, authenticateSocket(cred))
  \/ \E s \in Sockets, cred \in Credentials : Refuse(s, cred)
  \/ \E s \in Sockets : Disconnect(s)
  \/ \E s \in Sockets, id \in CommandTargets : TrafficControlCommand(s, id)
  \/ \E s \in Sockets, zs \in AffectedZoneLists : EmergencyAlert(s, zs)
  \/ \E actor \in Actors, id \in TargetIds, body \in UpdateBodies :
       UpdateUser(actor, id, body)
  \/ \E actor \in Actors, id \in TargetIds : DeactivateUser(actor, id)
  \/ \E actor \in Actors, id \in TargetIds : ActivateUser(actor, id)
  \/ \E actor \in Actors, id \in TargetIds : DeleteUser(actor, id)

SpecUsers == Init /\ [][NextUsers]_vars

\* The incident routes of the same app, with requests handled concurrently.
NextIncidents ==
  \/ \E r \in Requests, actor \in Resolvers, id \in IncidentIds,
        body \in ResolveBodies : ResolveIncidentFind(r, actor, id, body)
  \/ \E r \in Requests : ResolveIncidentUpdate(r)

SpecIncidents == Init /\ [][NextIncidents]_vars

\* ===================================================================== claims
Role(s) == sockDoc[s].role
Department(s) == sockDoc[s].department
Emits == {last.emits[i] : i \in 1..Len(last.emits)}

\* C1: once a join_room of socket S for room R has been accepted, S is among
\* the recipients of every emit that targets R, until S issues leave_room for
\* R or disconnects.
C1_JoinedSessionReceives ==
  \A e \in Emits :
    e.kind = "room" =>
      \A s \in Sockets : e.room \in joined[s] => s \in e.rcpts

C1_Witness ==
  /\ last.op = "broadcastTrafficUpdate"
  /\ \E s \in Sockets :
       /\ ZoneRoom("North") \in joined[s]
       /\ last.emits[1].room = ZoneRoom("North")
       /\ s \in last.emits[1].rcpts

\* C2: once the disconnect of socket S has been handled, S is in no room, no
\* registry entry refers to S, and no emission of any handler or periodic
\* callback that runs afterwards has S among its recipients.
C2_DisconnectedReceivesNothing ==
  \A s \in Sockets :
    status[s] = "closed" =>
      /\ sockRooms[s] = {}
      /\ \A e \in Emits : s \notin e.rcpts
      /\ \A u \in DOMAIN connectedUsers : connectedUsers[u].socketId # s

C2_Witness ==
  /\ last.op = "tick_incidents"
  /\ \E s \in Sockets : status[s] = "closed"
  /\ last.emits[1].rcpts # {}
  /\ last.emits[2].rcpts # {}

\* C3: right after a connection the socket's rooms are exactly general, plus
\* operations_center iff the role is admin or operator, plus analytics_center
\* iff the role is admin or analyst, plus emergency_team iff the department is
\* emergency or the role is admin.
C3_DefaultRooms ==
  last.op = "connect" =>
    LET s == last.sock
        rooms == sockRooms[s]
    IN /\ General \in rooms
       /\ OperationsCenter \in rooms <=> Role(s) \in {"admin", "operator"}
       /\ AnalyticsCenter \in rooms <=> Role(s) \in {"admin", "analyst"}
       /\ EmergencyTeam \in rooms
            <=> (Department(s) = "emergency" \/ Role(s) = "admin")
       /\ rooms \subseteq {General, OperationsCenter, AnalyticsCenter, EmergencyTeam}
       /\ (Role(s) = "operator" /\ Department(s) = "operations")
            => rooms = {General, OperationsCenter}
       /\ (Role(s) = "admin" /\ Department(s) = "emergency")
            => rooms = {General, OperationsCenter, AnalyticsCenter, EmergencyTeam}

C3_Witness ==
  /\ last.op = "connect"
  /\ Role(last.sock) = "admin"
  /\ Department(last.sock) = "emergency"
  /\ Cardinality(sockRooms[last.sock]) = 4
  /\ \E t \in Sockets :
       /\ t # last.sock
       /\ status[t] = "active"
       /\ Role(t) = "operator"
       /\ Department(t) = "operations"

\* C4 (as stated): with an admin socket A and a viewer socket B both joined to
\* zone:North by join_room, one broadcastTrafficUpdate of a North reading gives
\* A and B exactly one traffic_update each, and gives none to a socket that
\* never joined zone:North.
C4_ExactlyOneCopyEach ==
  (last.op = "broadcastTrafficUpdate" /\ last.arg[1] = "North") =>
    \A a, b \in Sockets :
      ( /\ status[a] = "active" /\ status[b] = "active"
        /\ Role(a) = "admin" /\ Role(b) = "viewer"
        /\ ZoneRoom("North") \in joined[a]
        /\ ZoneRoom("North") \in joined[b] ) =>
        /\ Copies(last.emits, a, "traffic_update") = 1
        /\ Copies(last.emits, b, "traffic_update") = 1
        /\ \A c \in Sockets :
             ZoneRoom("North") \notin everJoined[c] =>
               Copies(last.emits, c, "traffic_update") = 0

\* C4 (amended): one broadcastTrafficUpdate gives every socket one
\* traffic_update carrying the reading per targeted room (the reading's zone
\* room, its intersection room, operations_center) the socket is in: at least
\* one to a socket joined to the zone room, at least two to an admin that is
\* also still in operations_center, none to a socket in none of the three.
C4_OneCopyPerTargetedRoom ==
  last.op = "broadcastTrafficUpdate" =>
    LET targets == { ZoneRoom(last.arg[1]), IntersectionRoom(last.arg[2]),
                     OperationsCenter }
    IN /\ \A e \in Emits : e.ev = "traffic_update" /\ e.data = last.arg
       /\ \A s \in Sockets :
            /\ Copies(last.emits, s, "traffic_update")
                 = Cardinality(sockRooms[s] \cap targets)
            /\ ZoneRoom(last.arg[1]) \in joined[s]
                 => Copies(last.emits, s, "traffic_update") >= 1
            /\ ( /\ ZoneRoom(last.arg[1]) \in joined[s]
                 /\ Role(s) = "admin"
                 /\ OperationsCenter \in sockRooms[s] )
                 => Copies(last.emits, s, "traffic_update") >= 2
            /\ sockRooms[s] \cap targets = {}
                 => Copies(last.emits, s, "traffic_update") = 0

C4_Witness ==
  /\ last.op = "broadcastTrafficUpdate"
  /\ last.arg[1] = "North"
  /\ \E a, b \in Sockets :
       /\ status[a] = "active" /\ status[b] = "active"
       /\ Role(a) = "admin" /\ Role(b) = "viewer"
       /\ ZoneRoom("North") \in joined[a]
       /\ ZoneRoom("North") \in joined[b]
       /\ Copies(last.emits, a, "traffic_update") = 2
       /\ Copies(last.emits, b, "traffic_update") = 1

\* C5: a traffic_control_command from a socket whose role is neither admin nor
\* operator emits exactly one error event, to the issuing socket only, and no
\* traffic_control_command to any room, with or without an intersectionId.
C5_UnauthorizedCommandRejected ==
  ( /\ last.op = "traffic_control_command"
    /\ Role(last.sock) \notin {"admin", "operator"} ) =>
    /\ Len(last.emits) = 1
    /\ last.emits[1].ev = "error"
    /\ last.emits[1].kind = "socket"
    /\ last.emits[1].rcpts = {last.sock}

C5_Witness ==
  /\ last.op = "traffic_control_command"
  /\ Role(last.sock) = "viewer"
  /\ last.arg = <<"INT-001">>
  /\ \E t \in Sockets :
       t # last.sock /\ IntersectionRoom("INT-001") \in sockRooms[t]

\* C6: the emergency_alert handler emits an emergency_alert only for an issuer
\* of the emergency department or of role admin; for any other issuer it emits
\* exactly one error event, to the issuer only, whatever affectedZones holds.
C6_UnauthorizedAlertRejected ==
  last.op = "emergency_alert" =>
    LET allowed == Department(last.sock) = "emergency" \/ Role(last.sock) = "admin"
    IN /\ (\E e \in Emits : e.ev = "emergency_alert") => allowed
       /\ ~allowed =>
            /\ Len(last.emits) = 1
            /\ last.emits[1].ev = "error"
            /\ last.emits[1].kind = "socket"
            /\ last.emits[1].rcpts = {last.sock}

C6_Witness ==
  /\ last.op = "emergency_alert"
  /\ Role(last.sock) = "operator"
  /\ Department(last.sock) = "operations"
  /\ last.arg = <<"North", "Mars">>
  /\ \E t \in Sockets :
       /\ t # last.sock
       /\ ZoneRoom("North") \in sockRooms[t]
       /\ EmergencyTeam \in sockRooms[t]

\* C7: a join_room for zone:<name> with a name outside Central, North, South,
\* East, West leaves every socket's rooms and the tracked room sets as they
\* were and sends no room_joined.
C7_InvalidZoneRejected ==
  ( /\ last.op = "join_room"
    /\ Len(last.room) = 2
    /\ last.room[1] = "zone"
    /\ last.room[2] \notin {"Central", "North", "South", "East", "West"} ) =>
    /\ sockRooms = last.pre.rooms
    /\ userRooms = last.pre.tracked
    /\ last.emits = <<>>

C7_Witness ==
  /\ last.op = "join_room"
  /\ last.room = ZoneRoom("Mars")
  /\ ZoneRoom("North") \in sockRooms[last.sock]
  /\ ZoneRoom("Mars") \notin sockRooms[last.sock]

\* A recognized room name: a fixed room, zone:<one of the five zones>, or
\* intersection:<non-empty id>.
Recognized(room) ==
  \/ room \in {OperationsCenter, AnalyticsCenter, EmergencyTeam, General}
  \/ /\ Len(room) = 2
     /\ room[1] = "zone"
     /\ room[2] \in {"Central", "North", "South", "East", "West"}
  \/ /\ Len(room) = 2
     /\ room[1] = "intersection"
     /\ room[2] # ""

\* C8: every room a socket is in is a recognized room, and a join_room with
\* any other name is rejected and adds no membership.
C8_OnlyRecognizedRooms ==
  /\ \A s \in Sockets : \A room \in sockRooms[s] : Recognized(room)
  /\ (last.op = "join_room" /\ ~Recognized(last.room)) =>
       /\ ~last.ok
       /\ sockRooms = last.pre.rooms

\* C9: leave_room twice in a row leaves the state that leave_room once leaves,
\* and a leave_room for a room the socket is not in changes neither the rooms
\* of any socket nor the tracked room sets.
C9_LeaveIdempotentAndTotal ==
  /\ \A s \in Sockets : \A room \in LeaveInputs :
       status[s] = "active" =>
         LET once == leaveRoom(Now, s, sockUser[s], room)
         IN leaveRoom(once, s, sockUser[s], room) = once
  /\ (last.op = "leave_room" /\ last.room \notin last.pre.rooms[last.sock]) =>
       /\ sockRooms = last.pre.rooms
       /\ userRooms = last.pre.tracked

\* C10: an accepted join_room for a room the socket is already in leaves the
\* rooms of every socket and the tracked room sets exactly as they were.
C10_JoinIdempotent ==
  (last.op = "join_room" /\ last.ok /\ last.room \in last.pre.rooms[last.sock]) =>
    /\ sockRooms = last.pre.rooms
    /\ userRooms = last.pre.tracked

\* C11: a handshake with no token, a forged or expired token, a token of a
\* deleted account or a token of an inactive account ends with the socket
\* refused: the socket gets no user, no room, no registry entry and no event,
\* none of its handlers ever runs, and every active socket belongs to a known,
\* active account.
C11_BadHandshakeRefused ==
  /\ \A s \in Sockets :
       status[s] = "refused" =>
         /\ sockUser[s] = NoUser
         /\ sockRooms[s] = {}
         /\ \A u \in DOMAIN connectedUsers : connectedUsers[u].socketId # s
         /\ \A e \in Emits : s \notin e.rcpts
         /\ last.sock = s => last.op = "refuse"
  /\ last.op = "refuse" =>
       /\ status[last.sock] = "refused"
       /\ last.emits = <<>>
  /\ \A s \in Sockets :
       status[s] = "active" =>
         /\ sockUser[s] \in {"admin", "operator1", "analyst1", "emergency1",
                              "viewer1", "chief"}
         /\ sockDoc[s].isActive
  /\ last.op = "connect" =>
       /\ last.arg[1] # "retired1"
       /\ last.arg[1] # "ghost"

C11_Witness ==
  /\ last.op = "broadcastSystemAlert"
  /\ last.emits[1].rcpts # {}
  /\ \E s \in Sockets : status[s] = "refused"

\* getConnectedUsersCount(): connectedUsers.size
getConnectedUsersCount == Cardinality(DOMAIN connectedUsers)

\* C12: the registry holds exactly one entry per live connection, so
\* getConnectedUsersCount equals the number of active sockets, also while one
\* user holds several connections and after one of them disconnects.
C12_OneEntryPerLiveConnection ==
  /\ getConnectedUsersCount = Cardinality({s \in Sockets : status[s] = "active"})
  /\ \A s \in Sockets :
       status[s] = "active" =>
         \E u \in DOMAIN connectedUsers : connectedUsers[u].socketId = s

C14_AlertToTeamAndZones ==
  ( /\ last.op = "emergency_alert"
    /\ (Department(last.sock) = "emergency" \/ Role(last.sock) = "admin") ) =>
    LET targets == {<<"emergency_team">>}
                     \cup {<<"zone", last.arg[i]>> : i \in 1..Len(last.arg)}
    IN /\ \A e \in Emits :
            /\ e.ev = "emergency_alert"
            /\ e.kind = "room"
            /\ e.rcpts = {s \in Sockets : e.room \in sockRooms[s]}
       /\ {e.room : e \in Emits} = targets
       /\ \A s \in Sockets :
            Copies(last.emits, s, "emergency_alert") >= 1
              <=> sockRooms[s] \cap targets # {}
       /\ last.arg = <<>> =>
            \A s \in Sockets :
              Copies(last.emits, s, "emergency_alert")
                = (IF <<"emergency_team">> \in sockRooms[s] THEN 1 ELSE 0)

C14_Witness ==
  /\ last.op = "emergency_alert"
  /\ Department(last.sock) = "emergency"
  /\ last.arg = <<"North", "Mars">>
  /\ Copies(last.emits, last.sock, "emergency_alert") = 1
  /\ \E t \in Sockets :
       /\ EmergencyTeam \notin sockRooms[t]
       /\ ZoneRoom("North") \in sockRooms[t]
       /\ Copies(last.emits, t, "emergency_alert") = 1

\* C15: the periodic timer never has two of its callbacks awaiting a fetch
\* at once: a tick that fires while the fetch of an earlier tick is pending
\* starts no second fetch.
C15_NoOverlappingFetches == awaitTraffic + awaitIncidents <= 1

\* C16: a fetch that fails during a periodic tick ends that tick and nothing
\* else: the process stays up and nothing is emitted for the failure; in every
\* state, so also in every state after a failed tick, the timer can fire again
\* (below the bound on pending callbacks) and a pending fetch can still resolve
\* and broadcast.
C16_FailedTickSwallowed ==
  /\ last.op = "tick_failed" =>
       (running /\ last.emits = <<>> /\ ENABLED TickFire)
  /\ running =>
       /\ awaitTraffic + awaitIncidents < MaxInflight => ENABLED TickFire
       /\ awaitTraffic > 0 => ENABLED TickTrafficFetched
       /\ awaitIncidents > 0 => ENABLED TickIncidentsFetched

C16_Witness ==
  /\ last.op = "tick_failed"
  /\ awaitTraffic = 1
  /\ \E s \in Sockets : OperationsCenter \in sockRooms[s]

C18_InvalidJoinNotifiesIssuer ==
  (last.op = "join_room" /\ ~Recognized(last.room)) =>
    /\ \E e \in Emits : e.ev = "error" /\ e.rcpts = {last.sock}
    /\ sockRooms = last.pre.rooms
    /\ userRooms = last.pre.tracked
    /\ status[last.sock] = "active"

\* C19: the recipients of an emit to room R are active sockets that are in R
\* when it is emitted, each by an accepted join_room not left since or by its
\* default rooms; a socket that joined R and has left it since is not among
\* them; and nothing is replayed on joining: the only event a join_room sends
\* is the room_joined to the joining socket.
C19_OnlyMembersAtEmission ==
  /\ \A e \in Emits :
       e.kind = "room" =>
         \A s \in Sockets :
           /\ s \in e.rcpts =>
                /\ status[s] = "active"
                /\ e.room \in sockRooms[s]
                /\ \/ e.room \in joined[s]
                   \/ \E i \in 1..Len(DefaultJoins(sockDoc[s])) :
                        DefaultJoins(sockDoc[s])[i] = e.room
           /\ (e.room \in everJoined[s] /\ e.room \notin joined[s])
                => s \notin e.rcpts
  /\ last.op = "join_room" =>
       \A e \in Emits : e.ev = "room_joined" /\ e.rcpts = {last.sock}

C19_Witness ==
  /\ last.op = "broadcastTrafficUpdate"
  /\ last.arg[1] = "North"
  /\ \E s, t \in Sockets :
       /\ status[s] = "active"
       /\ ZoneRoom("North") \in everJoined[s]
       /\ ZoneRoom("North") \notin joined[s]
       /\ Copies(last.emits, s, "traffic_update") = 0
       /\ Copies(last.emits, t, "traffic_update") = 1

\* C20: a socket only goes from new to active (handshake accepted; the
\* connection handler runs right after the middleware) or to refused, and from
\* active to closed; closed and refused are final, and such a socket has no
\* room and no registry entry ever after; join_room, leave_room,
\* traffic_control_command and emergency_alert run only for a socket that is
\* active.
C20_Lifecycle ==
  [][ /\ \A s \in Sockets :
           /\ \/ status'[s] = status[s]
              \/ status[s] = "new" /\ status'[s] \in {"active", "refused"}
              \/ status[s] = "active" /\ status'[s] = "closed"
           /\ status[s] \in {"closed", "refused"} =>
                /\ status'[s] = status[s]
                /\ sockRooms'[s] = {}
                /\ \A u \in DOMAIN connectedUsers' :
                     connectedUsers'[u].socketId # s
      /\ last'.op \in {"join_room", "leave_room", "traffic_control_command",
                        "emergency_alert"} =>
           status[last'.sock] = "active" ]_vars

C20_Witness ==
  /\ last.op = "join_room"
  /\ last.ok
  /\ status[last.sock] = "active"
  /\ \E s \in Sockets : status[s] = "closed"

\* C21: one broadcastTrafficUpdate makes three emits, one per targeted room
\* (the reading's zone room, its intersection room, operations_center, in that
\* order), so each socket gets as many traffic_update copies as the number of
\* those rooms it is in: two for a socket in two of them.
C21_OncePerTargetedRoom ==
  last.op = "broadcastTrafficUpdate" =>
    LET targets == << <<"zone", last.arg[1]>>, <<"intersection", last.arg[2]>>,
                      <<"operations_center">> >>
    IN /\ Len(last.emits) = 3
       /\ \A i \in 1..3 :
            /\ last.emits[i].ev = "traffic_update"
            /\ last.emits[i].room = targets[i]
            /\ last.emits[i].rcpts = {s \in Sockets : targets[i] \in sockRooms[s]}
       /\ \A s \in Sockets :
            Copies(last.emits, s, "traffic_update")
              = Cardinality({i \in 1..3 : targets[i] \in sockRooms[s]})

C21_Witness ==
  /\ last.op = "broadcastTrafficUpdate"
  /\ last.arg = <<"North", "INT-001">>
  /\ \E s, t \in Sockets :
       /\ sockRooms[s] \cap {ZoneRoom("North"), IntersectionRoom("INT-001"),
                              OperationsCenter}
            = {IntersectionRoom("INT-001"), OperationsCenter}
       /\ Copies(last.emits, s, "traffic_update") = 2
       /\ sockRooms[t] \cap {ZoneRoom("North"), IntersectionRoom("INT-001"),
                              OperationsCenter}
            = {ZoneRoom("North")}
       /\ Copies(last.emits, t, "traffic_update") = 1

\* C22: a join_room whose payload has no room string sends an error event to
\* the issuing socket, changes no socket's rooms and no tracked room set, and
\* leaves the process running and every other socket connected.
C22_MalformedJoinScoped ==
  (last.op = "join_room" /\ last.room = NoRoom) =>
    /\ \E e \in Emits : e.ev = "error" /\ e.rcpts = {last.sock}
    /\ sockRooms = last.pre.rooms
    /\ userRooms = last.pre.tracked
    /\ running
    /\ \A s \in Sockets : last.pre.rooms[s] # {} => status[s] = "active"

\* C23: a step of ping, request_traffic_data, request_incident_data,
\* traffic_control_command, emergency_alert (accepted or rejected), of a
\* triggered broadcast or of the periodic callback leaves every socket's
\* status, user and rooms, the tracked room sets and the registry as they
\* were; these change only in a step of connect, join_room, leave_room or
\* disconnect.
C23_OnlyMembershipHandlersChangeIt ==
  [][ /\ last'.op \in {"ping", "request_traffic_data", "request_incident_data",
                        "traffic_control_command", "emergency_alert",
                        "broadcastTrafficUpdate", "broadcastIncidentUpdate",
                        "broadcastSystemAlert", "tick", "tick_traffic",
                        "tick_incidents", "tick_failed"} =>
           UNCHANGED <<status, sockUser, sockRooms, userRooms, connectedUsers>>
      /\ <<sockRooms, userRooms, connectedUsers>>'
           # <<sockRooms, userRooms, connectedUsers>> =>
           last'.op \in {"connect", "join_room", "leave_room", "disconnect"}
    ]_vars

C23_Witness ==
  /\ last.op = "request_traffic_data"
  /\ ~last.ok
  /\ last.emits[1].ev = "error"
  /\ joined[last.sock] # {}
  /\ \E t \in Sockets : t # last.sock /\ sockUser[t] = sockUser[last.sock]

\* C24: the user document a socket carries is the one its handshake read and
\* stays so while the socket is active; traffic_control_command and
\* emergency_alert are accepted or rejected by that document's role and
\* department, whatever the collection holds by then; and a request of the
\* user-management routes changes no socket's status, user, document or rooms
\* and no Map of the handler.
C24_IdentityFixedAtConnect ==
  [][ /\ \A s \in Sockets :
           /\ (status[s] = "active" /\ status'[s] = "active")
                => sockDoc'[s] = sockDoc[s]
           /\ (status[s] = "new" /\ status'[s] = "active")
                => sockDoc'[s] = users[sockUser'[s]]
      /\ last'.op = "traffic_control_command" =>
           last'.ok = (sockDoc[last'.sock].role \in {"admin", "operator"})
      /\ last'.op = "emergency_alert" =>
           last'.ok = ( \/ sockDoc[last'.sock].department = "emergency"
                       \/ sockDoc[last'.sock].role = "admin" )
      /\ last'.op \in {"PUT /users/:id", "PUT /users/:id/deactivate",
                        "PUT /users/:id/activate", "DELETE /users/:id"} =>
           UNCHANGED <<status, sockUser, sockDoc, sockRooms, connectedUsers,
                       userRooms>>
    ]_vars

C24_Witness ==
  /\ last.op = "traffic_control_command"
  /\ last.ok
  /\ sockUser[last.sock] = "operator1"
  /\ "operator1" \in DOMAIN users
  /\ users["operator1"] = [role |-> "viewer", department |-> "operations",
                            isActive |-> FALSE]
  /\ OperationsCenter \in sockRooms[last.sock]

\* C25: after a disconnect that happens while a callback of the timer awaits
\* a fetch, the fetch can still resolve and the callback emits as usual: the
\* recipients of its emits are active sockets only (all those in the room, or
\* all of them for system_health), and the connectedUsers of system_health is
\* the size of the registry when it is emitted.
C25_DisconnectDuringTick ==
  /\ (last.op = "disconnect" /\ awaitTraffic > 0) => ENABLED TickTrafficFetched
  /\ (last.op = "disconnect" /\ awaitIncidents > 0)
       => ENABLED TickIncidentsFetched
  /\ last.op \in {"tick_traffic", "tick_incidents"} =>
       \A e \in Emits :
         /\ \A s \in e.rcpts : status[s] = "active"
         /\ \A s \in Sockets :
              (status[s] = "active" /\ (e.kind = "all" \/ e.room \in sockRooms[s]))
                => s \in e.rcpts
  /\ last.op = "tick_incidents" =>
       last.emits[2].data = <<getConnectedUsersCount>>

C25_Witness ==
  /\ last.op = "disconnect"
  /\ awaitIncidents > 0
  /\ \E t \in Sockets :
       /\ status[t] = "active"
       /\ EmergencyTeam \in sockRooms[t]
       /\ sockUser[t] \in DOMAIN connectedUsers

\* C26: the rooms field of a registry entry is the set of rooms the entry's
\* socket is in.
C26_EntryRoomsAreMemberships ==
  \A u \in DOMAIN connectedUsers :
    connectedUsers[u].rooms = sockRooms[connectedUsers[u].socketId]

\* C27: a user id has a tracked room set only if it has a registry entry, and
\* the tracked set of a user (empty when there is none) is the set of rooms
\* the user's active sockets are in.
C27_TrackedRoomsExact ==
  /\ \A u \in DOMAIN userRooms : u \in DOMAIN connectedUsers
  /\ \A u \in UserIds :
       (IF u \in DOMAIN userRooms THEN userRooms[u] ELSE {})
         = UNION {sockRooms[s] : s \in {x \in Sockets : status[x] = "active"
                                                      /\ sockUser[x] = u}}

\* C28: every socket in operations_center has role admin or operator, every
\* socket in analytics_center has role admin or analyst, and every socket in
\* emergency_team has department emergency or role admin.
C28_RoleRoomsRestricted ==
  \A s \in Sockets :
    /\ <<"operations_center">> \in sockRooms[s]
         => Role(s) \in {"admin", "operator"}
    /\ <<"analytics_center">> \in sockRooms[s]
         => Role(s) \in {"admin", "analyst"}
    /\ <<"emergency_team">> \in sockRooms[s]
         => (Department(s) = "emergency" \/ Role(s) = "admin")

\* C30: a user-management request (PUT /users/:id, PUT /users/:id/deactivate,
\* DELETE /users/:id) issued by an admin leaves that admin's own account
\* existing and active.
C30_AdminKeepsOwnAccount ==
  [][\A a \in Actors :
       (/\ protect(a)
        /\ users[a].role = "admin"
        /\ last'.op \in {"PUT /users/:id", "PUT /users/:id/deactivate",
                         "DELETE /users/:id"}
        /\ last'.arg[1] = a)
       => (a \in DOMAIN users' /\ users'[a].isActive)]_vars

\* The 'resolved' entries of an incident's updates history.
ResolvedEntries(doc) ==
  Cardinality({i \in DOMAIN doc.updates : doc.updates[i].status = "resolved"})

\* C29: an incident is resolved at most once: a resolved incident is left
\* unchanged by every request, so its resolution is never overwritten and its
\* updates history never holds two 'resolved' entries, also when two resolve
\* requests for it are handled concurrently.
C29_ResolvedAtMostOnce ==
  [][\A id \in DOMAIN incidents :
       /\ incidents[id].status = "resolved" => incidents'[id] = incidents[id]
       /\ ResolvedEntries(incidents'[id]) <= 1]_vars

====
